---- MODULE Spec2Model ----
(***************************************************************************)
(* State-machine model of the 100 m race application                       *)
(* (src/apps/race-100m/main.js): the start / reset handlers, the chained   *)
(* setTimeout countdown, the per-frame animation-loop callback, the        *)
(* scoreboard sort and the personal-best merge.                            *)
(*                                                                         *)
(* Units.  Time is in milliseconds, distance in millimetres, speed in      *)
(* millimetres per second, so that every quantity the code computes in     *)
(* floating point is an integer here (speed * dt is exact for the frame    *)
(* gaps and speeds enumerated below).  Finish times are elapsed            *)
(* milliseconds; null is the value Null.                                   *)
(*                                                                         *)
(* Clock.  The code reads performance.now() only in differences:          *)
(* now - lastT (line 82), now - tStart (line 92) and, through setTimeout,  *)
(* due - now.  The model keeps these differences: elapsed = now - tStart   *)
(* (tracked while raceStarted, the only time line 92 reads tStart) and     *)
(* rem = due - now for every pending countdown timer.  Time advances in    *)
(* the frame callback; a timer whose due time has passed runs before the   *)
(* next frame.  Frames arrive FrameGap ms apart; with a gap above the      *)
(* 50 ms clamp a race still takes distance / (speed * 0.05 s) frames,      *)
(* while the 3280 ms countdown spans a handful of them.                    *)
(***************************************************************************)
EXTENDS Integers, Sequences, FiniteSets, TLC

\* ---------------------------------------------------------------- bounds
MaxStarts == 2        \* start requests (clicks / Space) in one behaviour
FrameGap == 350       \* milliseconds between two frames

\* ------------------------------------------------------ program constants
NumRunners == 4       \* sources.length / lanes.length
startZ == 0
finishZ == 100000     \* 100 m
MaxDt == 50           \* Math.min(0.05, ...) s
HoldMs == 700         \* countdown(..., 700, ...)
GapMs == 120          \* setTimeout(step, 120)
RunScale == 22        \* timeScale 2.2 (tenths)
FinishScale == 6      \* timeScale 0.6 (tenths)
Null == -1            \* null / undefined
LookAhead == 2000     \* targetZ = focusZ + 2
InitialLookAtZ == 20000   \* camera.lookAt(0, 1.2, 20)

Lanes == 1..NumRunners

labels == <<"3", "2", "1", "GO!">>

\* `Lane ${lane}`
LaneLabel(lane) == "Lane " \o ToString(lane)

\* loadNames() with nothing stored
DefaultNames == [i \in Lanes |-> LaneLabel(i)]

\* Text typed into a name input.
NameChoices == {"", "Ana"}

\* The four name inputs when the save button is pressed: lane 4 is given the
\* name lane 3 shows by default, the other inputs are left blank.
NameInputs == { <<"", "", "", LaneLabel(3)>> }

AllNames == {LaneLabel(i) : i \in Lanes} \cup (NameChoices \ {""})

\* Draws of 6.5 + Math.random() * 2.2 for the four lanes, in mm/s.
SpeedDraws == { <<8200, 8400, 8600, 8000>> }

VARIABLES
  raceStarted,   \* let raceStarted
  elapsed,       \* now - tStart, in ms
  audio,         \* TRUE once the WebAudio engine exists
  runners,       \* lane -> [z, speed, finished, tFinish, timeScale]
  names,         \* lane -> display name
  pbs,           \* name -> best time or Null
  scores,        \* lanes in the order updateScores last rendered them
  chains,        \* pending countdown() invocations, oldest first
  cdText,        \* $countdown.textContent
  cdVisible,     \* $countdown has class 'visible'
  lookAtZ,       \* z of the point the camera looks at
  \* history
  cueLog,        \* cue-service calls since the last start request that
                 \* found no countdown in flight
  sinceReset,    \* TRUE from a reset (or load) until the next start request
  owed,          \* a start request passed the guard and has not yet led to Running
  nFinalize,     \* finalizePBs calls since the last reset (or load)
  pbsBefore,     \* the table as the last finalizePBs call since the last reset
                 \* found it (the table itself when there was none)
  nStarts,       \* start requests so far
  nIgnored,      \* start requests since the last reset that returned at the
                 \* raceStarted guard
  stored         \* what localStorage.getItem returned for the two keys when
                 \* the module was loaded (lines 305 and 312)

vars == <<raceStarted, elapsed, audio, runners, names, pbs, scores, chains,
          cdText, cdVisible, lookAtZ, cueLog, sinceReset, owed, nFinalize, pbsBefore, nStarts, nIgnored,
          stored>>

progVars == <<raceStarted, elapsed, audio, runners, names, pbs, scores, chains,
              cdText, cdVisible, lookAtZ>>

\* ------------------------------------------------------------- helpers

\* names[r.lane - 1] || `Lane ${r.lane}`
DisplayName(nm, lane) == IF nm[lane] = "" THEN LaneLabel(lane) ELSE nm[lane]

\* Mutant of CompareFinish: a missing time sorts first.
CompareFinishNullFirst(a, b) ==
  IF a = Null /\ b = Null THEN 0
  ELSE IF a = Null THEN -1
  ELSE IF b = Null THEN 1
  ELSE a - b

\* Comparator of updateScores: negative, zero or positive.
CompareFinish(a, b) ==
  IF a = Null /\ b = Null THEN 0
  ELSE IF a = Null THEN 1
  ELSE IF b = Null THEN -1
  ELSE a - b

\* Stable insertion of lane x into the already sorted sequence s.
RECURSIVE InsertSorted(_, _, _)
InsertSorted(rs, s, x) ==
  IF s = <<>> THEN <<x>>
  ELSE IF CompareFinish(rs[x].tFinish, rs[s[Len(s)]].tFinish) < 0
       THEN Append(InsertSorted(rs, SubSeq(s, 1, Len(s) - 1), x), s[Len(s)])
       ELSE Append(s, x)

RECURSIVE SortLanes(_, _)
SortLanes(rs, n) ==
  IF n = 0 THEN <<>> ELSE InsertSorted(rs, SortLanes(rs, n - 1), n)

\* updateScores(): the order of the chips written to $scores.
updateScores(rs) == SortLanes(rs, NumRunners)

\* Mutant of MergeLane: the new time always overwrites the stored one.
MergeLaneOverwrite(rs, nm, pb, i) ==
  IF rs[i].tFinish = Null THEN pb
  ELSE [pb EXCEPT ![DisplayName(nm, i)] = rs[i].tFinish]

\* One pass of the loop body of finalizePBs for lane i.
MergeLane(rs, nm, pb, i) ==
  IF rs[i].tFinish = Null THEN pb
  ELSE LET name == DisplayName(nm, i)
           prev == pb[name]
       IN IF prev = Null \/ rs[i].tFinish < prev
          THEN [pb EXCEPT ![name] = rs[i].tFinish]
          ELSE pb

RECURSIVE MergeUpTo(_, _, _, _)
MergeUpTo(rs, nm, pb, n) ==
  IF n = 0 THEN pb ELSE MergeLane(rs, nm, MergeUpTo(rs, nm, pb, n - 1), n)

\* Mutant of finalizePBs: every lane compares against the table as it was
\* before the loop, not against what earlier lanes have written.
RECURSIVE SnapshotUpTo(_, _, _, _, _)
SnapshotUpTo(rs, nm, pb0, pb, n) ==
  IF n = 0 THEN pb
  ELSE LET acc == SnapshotUpTo(rs, nm, pb0, pb, n - 1)
           name == DisplayName(nm, n)
       IN IF rs[n].tFinish # Null /\ (pb0[name] = Null \/ rs[n].tFinish < pb0[name])
            THEN [acc EXCEPT ![name] = rs[n].tFinish]
            ELSE acc

finalizePBsSnapshot(rs, nm, pb) == SnapshotUpTo(rs, nm, pb, pb, NumRunners)

\* finalizePBs(): the table after the loop over runners.
finalizePBs(rs, nm, pb) == MergeUpTo(rs, nm, pb, NumRunners)

\* ---------------------------------------------------------------- Init

\* A stored value that is not a number (a JSON string such as "fast").
NotNumber == -2

\* pbs = {}: no name has a best time.
EmptyTable == [n \in AllNames |-> Null]

\* What localStorage.getItem returns for a key, by what JSON.parse makes of
\* it: "missing" (null, nothing stored), "empty" (the empty string),
\* "garbage" (JSON.parse throws), "null", "number" and "string" (JSON values
\* that are neither array nor object), "array" (items holds its entries) and
\* "object" (table holds its members: a number, NotNumber, or Null where the
\* name is no member).
Raw(kind, items, table) == [kind |-> kind, items |-> items, table |-> table]

Missing == Raw("missing", <<>>, EmptyTable)

NothingStored == [names |-> Missing, pbs |-> Missing]

\* loadNames(): !raw and a throwing JSON.parse give the defaults; an array of
\* at least 4 entries gives its first 4; anything else the defaults.
loadNames(raw) ==
  IF raw.kind \in {"missing", "empty"} THEN DefaultNames
  ELSE IF raw.kind = "garbage" THEN DefaultNames
  ELSE IF raw.kind = "array" /\ Len(raw.items) >= NumRunners
    THEN [i \in Lanes |-> raw.items[i]]
    ELSE DefaultNames

\* loadPBs(): !raw and a throwing JSON.parse give {}; a parsed value that is
\* truthy and of type 'object' is returned as it is (an array among them,
\* which has no member under any display name); anything else gives {}.
loadPBs(raw) ==
  IF raw.kind \in {"missing", "empty"} THEN EmptyTable
  ELSE IF raw.kind = "garbage" THEN EmptyTable
  ELSE IF raw.kind = "object" THEN raw.table
  ELSE EmptyTable

\* The chips updateScores() has appended to $scores when it returns or
\* throws: pb.toFixed(2) throws for a pb that is neither null nor a number,
\* after $scores was emptied and the chips before that one were appended.
RenderScores(rs, nm, pb) ==
  LET sorted == updateScores(rs)
      fails == {k \in DOMAIN sorted : pb[DisplayName(nm, sorted[k])] = NotNumber}
  IN IF fails = {} THEN sorted
     ELSE SubSeq(sorted, 1, (CHOOSE k \in fails : \A j \in fails : k <= j) - 1)

Init ==
  /\ raceStarted = FALSE
  /\ elapsed = 0
  /\ audio = FALSE
  /\ \E sp \in SpeedDraws :
       runners = [i \in Lanes |->
                    [z |-> startZ, speed |-> sp[i], finished |-> FALSE,
                     tFinish |-> Null, timeScale |-> RunScale]]
  /\ names = DefaultNames
  /\ pbs = [n \in AllNames |-> Null]
  /\ scores = updateScores([i \in Lanes |-> [tFinish |-> Null]])
  /\ chains = <<>>
  /\ cdText = ""
  /\ cdVisible = FALSE
  /\ lookAtZ = InitialLookAtZ
  /\ cueLog = <<>>
  /\ sinceReset = TRUE
  /\ owed = FALSE
  /\ nFinalize = 0
  /\ pbsBefore = pbs
  /\ nStarts = 0
  /\ nIgnored = 0
  /\ stored = NothingStored


\* ------------------------------------------------------------- actions

\* Mutant of NewChain: the sequence starts one label further on.
NewChainSecond == [i |-> 2, stage |-> "hold", rem |-> HoldMs]

\* The chain right after countdown() ran its first step() synchronously:
\* label '3' is shown and the 700 ms hold timer is pending.
NewChain == [i |-> 1, stage |-> "hold", rem |-> HoldMs]

\* Mutant of StartBlocked: the guard is missing.
StartBlockedNever == FALSE

\* if (raceStarted) return;
StartBlocked == raceStarted

\* startRace(): click on #btnStart or the Space key.  ensureAudio() builds the
\* AudioContext on the first call and is not wrapped in try/catch: when the
\* constructor throws (audioOk = FALSE) the handler ends before countdown().
StartRace ==
  /\ nStarts < MaxStarts
  /\ UNCHANGED stored
  /\ nStarts' = nStarts + 1
  /\ sinceReset' = FALSE
  /\ UNCHANGED <<nFinalize, pbsBefore>>
  /\ IF StartBlocked
       THEN /\ nIgnored' = nIgnored + 1
            /\ UNCHANGED <<raceStarted, elapsed, audio, runners, names, pbs, scores,
                           chains, cdText, cdVisible, lookAtZ, cueLog, owed>>
       ELSE \E audioOk \in BOOLEAN :
              /\ audio => audioOk
              /\ UNCHANGED nIgnored
              /\ owed' = TRUE
              /\ UNCHANGED <<raceStarted, elapsed, runners, names, pbs, scores, lookAtZ>>
              /\ IF audioOk
                   THEN /\ audio' = TRUE
                        /\ chains' = Append(chains, NewChain)
                        /\ cdText' = labels[1]
                        /\ cdVisible' = TRUE
                        /\ cueLog' = IF chains = <<>> THEN <<labels[1]>>
                                     ELSE Append(cueLog, labels[1])
                   ELSE /\ UNCHANGED <<audio, chains, cdText, cdVisible>>
                        /\ cueLog' = IF chains = <<>> THEN <<>> ELSE cueLog

\* The runner after resetRace()'s forEach body.
ResetRunner(r) ==
  [r EXCEPT !.z = startZ, !.finished = FALSE, !.tFinish = Null,
            !.timeScale = RunScale]

\* resetRace(): click on #btnReset.  Pending countdown timers are not touched.
ResetRace ==
  /\ raceStarted' = FALSE
  /\ UNCHANGED stored
  /\ elapsed' = 0
  /\ runners' = [i \in Lanes |-> ResetRunner(runners[i])]
  /\ scores' = updateScores(runners')
  /\ sinceReset' = TRUE
  /\ owed' = FALSE
  /\ nFinalize' = 0
  /\ pbsBefore' = pbs
  /\ nIgnored' = 0
  /\ UNCHANGED <<audio, names, pbs, chains, cdText, cdVisible, lookAtZ, cueLog,
                 nStarts>>

\* names after the save handler: inp.value.trim() || inp.placeholder || ''
\* (the inputs carry no placeholder text in the model).
SavedName(text) == IF text # "" THEN text ELSE ""

\* Click on #btnSaveNames.
SaveNames ==
  /\ UNCHANGED stored
  /\ \E input \in NameInputs :
       names' = [i \in Lanes |-> SavedName(input[i])]
  /\ scores' = updateScores(runners)
  /\ UNCHANGED <<raceStarted, elapsed, audio, runners, pbs, chains, cdText,
                 cdVisible, lookAtZ, cueLog, sinceReset, owed, nFinalize, pbsBefore,
                 nStarts, nIgnored>>

\* The index of the pending timer that runs next: the one that has been due
\* longest, the older chain first on a tie.  0 when none is due.
DueChain ==
  LET due == {k \in DOMAIN chains : chains[k].rem <= 0}
  IN IF due = {} THEN 0
     ELSE CHOOSE k \in due :
            \A j \in due : \/ chains[k].rem < chains[j].rem
                           \/ (chains[k].rem = chains[j].rem /\ k <= j)

RemoveAt(s, k) == SubSeq(s, 1, k - 1) \o SubSeq(s, k + 1, Len(s))

\* The hold timer: hide the label and schedule step() 120 ms later.
HoldTimer ==
  /\ DueChain # 0
  /\ UNCHANGED stored
  /\ chains[DueChain].stage = "hold"
  /\ cdVisible' = FALSE
  /\ chains' = [chains EXCEPT ![DueChain] = [@ EXCEPT !.stage = "gap", !.rem = GapMs]]
  /\ UNCHANGED <<raceStarted, elapsed, audio, runners, names, pbs, scores, cdText,
                 lookAtZ, cueLog, sinceReset, owed, nFinalize, pbsBefore, nStarts,
                 nIgnored>>

\* step() with a label left: show it, call onTick inside try/catch (a throwing
\* playCountBeep changes nothing) and start the next hold timer.
StepTimer ==
  /\ DueChain # 0
  /\ UNCHANGED stored
  /\ chains[DueChain].stage = "gap"
  /\ chains[DueChain].i < Len(labels)
  /\ LET label == labels[chains[DueChain].i + 1]
     IN /\ cdText' = label
        /\ cdVisible' = TRUE
        /\ cueLog' = Append(cueLog, label)
        /\ chains' = [chains EXCEPT ![DueChain] =
                        [i |-> @.i + 1, stage |-> "hold", rem |-> HoldMs]]
  /\ UNCHANGED <<raceStarted, elapsed, audio, runners, names, pbs, scores, lookAtZ,
                 sinceReset, owed, nFinalize, pbsBefore, nStarts, nIgnored>>

\* step() with no label left: resolve(), then the .then callback of startRace:
\* playGunshot() (not wrapped in try/catch: when it throws, gunOk = FALSE, the
\* callback ends there), tStart = now, raceStarted = true.
CountdownDone ==
  /\ DueChain # 0
  /\ UNCHANGED stored
  /\ chains[DueChain].stage = "gap"
  /\ chains[DueChain].i >= Len(labels)
  /\ cdVisible' = FALSE
  /\ chains' = RemoveAt(chains, DueChain)
  /\ cueLog' = Append(cueLog, "start")
  /\ \E gunOk \in BOOLEAN :
       IF gunOk
         THEN /\ elapsed' = 0
              /\ raceStarted' = TRUE
              /\ owed' = FALSE
         ELSE UNCHANGED <<elapsed, raceStarted, owed>>
  /\ UNCHANGED <<audio, runners, names, pbs, scores, cdText, lookAtZ, sinceReset,
                 nFinalize, pbsBefore, nStarts, nIgnored>>

\* Mutant of Advance: the finished check is missing.
AdvanceNoSkip(r, dt, el) ==
  LET z1 == r.z + (r.speed * dt) \div 1000
  IN IF z1 >= finishZ
       THEN [r EXCEPT !.z = finishZ, !.finished = TRUE, !.tFinish = el,
                      !.timeScale = FinishScale]
       ELSE [r EXCEPT !.z = z1]

\* Mutant of Advance: the finish line is tested with > instead of >=.
AdvanceStrict(r, dt, el) ==
  IF r.finished THEN r
  ELSE LET z1 == r.z + (r.speed * dt) \div 1000
       IN IF z1 > finishZ
            THEN [r EXCEPT !.z = finishZ, !.finished = TRUE, !.tFinish = el,
                           !.timeScale = FinishScale]
            ELSE [r EXCEPT !.z = z1]

\* Mutant of Advance: the position is not set back to the finish line.
AdvanceOvershoot(r, dt, el) ==
  IF r.finished THEN r
  ELSE LET z1 == r.z + (r.speed * dt) \div 1000
       IN IF z1 >= finishZ
            THEN [r EXCEPT !.z = z1, !.finished = TRUE, !.tFinish = el,
                           !.timeScale = FinishScale]
            ELSE [r EXCEPT !.z = z1]

\* The body of the for-loop of the frame callback for one runner: dt is the
\* clamped frame time, el the elapsed time of this frame.
Advance(r, dt, el) ==
  IF r.finished THEN r
  ELSE LET z1 == r.z + (r.speed * dt) \div 1000
       IN IF z1 >= finishZ
            THEN [r EXCEPT !.z = finishZ, !.finished = TRUE, !.tFinish = el,
                           !.timeScale = FinishScale]
            ELSE [r EXCEPT !.z = z1]

RECURSIVE SumZ(_, _)
SumZ(rs, n) == IF n = 0 THEN 0 ELSE SumZ(rs, n - 1) + rs[n].z

\* Mutant of fitCameraToTrack: the focus is the average position (avgZ).
fitCameraToAverage(rs) == SumZ(rs, NumRunners) \div NumRunners + LookAhead

RECURSIVE MinZ(_, _)
MinZ(rs, n) ==
  IF n = 1 THEN rs[1].z
  ELSE LET m == MinZ(rs, n - 1) IN IF rs[n].z < m THEN rs[n].z ELSE m

\* fitCameraToTrack(avgZ): the z the camera is pointed at, two metres ahead of
\* the rearmost runner (runners is never empty, so avgZ is not used).
fitCameraToTrack(rs) == MinZ(rs, NumRunners) + LookAhead

\* d = THREE.MathUtils.clamp(d, 7, 16), in mm
MinDist == 7000
MaxDist == 16000
clampDist(d) == IF d < MinDist THEN MinDist ELSE IF d > MaxDist THEN MaxDist ELSE d

\* Distances halfWidth / (tan(vFov / 2) * aspect) for a tall, a usual and a
\* very wide canvas, in mm.
DistChoices == {3000, 11000, 24000}

\* pos.z = targetZ - d * 0.8: the z the camera position is eased towards.
cameraTargetZ(rs, d) == fitCameraToTrack(rs) - (clampDist(d) * 8) \div 10

\* Mutant of ClampDt: every frame counts as 50 ms.
ClampDtFixed(gap) == MaxDt

\* const dt = Math.min(0.05, (now - lastT) / 1000)
ClampDt(gap) == IF gap < MaxDt THEN gap ELSE MaxDt

\* Mutant of Frame: the callback draws the frame and skips the race block.
FrameNoRace(gap) ==
  /\ UNCHANGED stored
  /\ DueChain = 0
  /\ chains' = [k \in DOMAIN chains |-> [chains[k] EXCEPT !.rem = @ - gap]]
  /\ lookAtZ' = fitCameraToTrack(runners)
  /\ UNCHANGED <<raceStarted, elapsed, runners, scores, pbs, pbsBefore, nFinalize>>
  /\ UNCHANGED <<audio, names, cdText, cdVisible, cueLog, sinceReset, owed, nStarts,
                 nIgnored>>

\* The setAnimationLoop callback for a frame that arrives gap ms after the
\* previous one.  No countdown timer is overdue when a frame is drawn.
Frame(gap) ==
  /\ DueChain = 0
  /\ UNCHANGED stored
  /\ chains' = [k \in DOMAIN chains |-> [chains[k] EXCEPT !.rem = @ - gap]]
  /\ lookAtZ' = fitCameraToTrack(runners)
  /\ IF raceStarted
       THEN LET el == elapsed + gap
                rs == [i \in Lanes |-> Advance(runners[i], ClampDt(gap), el)]
                allDone == \A i \in Lanes : rs[i].finished
            IN /\ runners' = rs
               /\ scores' = IF rs # runners \/ allDone THEN updateScores(rs) ELSE scores
               /\ IF allDone
                    THEN /\ raceStarted' = FALSE
                         /\ elapsed' = 0
                         /\ pbs' = finalizePBs(rs, names, pbs)
                         /\ pbsBefore' = pbs
                         /\ nFinalize' = nFinalize + 1
                    ELSE /\ elapsed' = el
                         /\ UNCHANGED <<raceStarted, pbs, pbsBefore, nFinalize>>
       ELSE UNCHANGED <<raceStarted, elapsed, runners, scores, pbs, pbsBefore, nFinalize>>
  /\ UNCHANGED <<audio, names, cdText, cdVisible, cueLog, sinceReset, owed, nStarts,
                 nIgnored>>

Tick == Frame(FrameGap)

Next ==
  \/ StartRace
  \/ ResetRace
  \/ SaveNames
  \/ HoldTimer
  \/ StepTimer
  \/ CountdownDone
  \/ Tick

Spec == Init /\ [][Next]_vars

\* The browser keeps drawing frames and runs every timer that is due.
SpecLive ==
  /\ Spec
  /\ WF_vars(Tick)
  /\ WF_vars(HoldTimer)
  /\ WF_vars(StepTimer)
  /\ WF_vars(CountdownDone)

\* ------------------------------------------------- one race, frame by frame
\* The race of the scenario: four runners whose draws of
\* 6.5 + Math.random() * 2.2 came out as 7.0, 7.5, 8.0 and 6.8 m/s, from the
\* moment the .then callback of startRace has set tStart and raceStarted, with
\* frames 40 or 50 ms apart.  The callback ran lead ms after the last frame
\* before it, so the first frame of the race has dt = gap and
\* elapsed = gap - lead.

ScenarioSpeeds == <<7000, 7500, 8000, 6800>>
ScenarioGaps == {40, 50}
ScenarioLeads == {0, 20}

\* The state the single start request of a session leads to, at the step that
\* sets raceStarted, for the given speeds and lead.
RaceStart(sp, lead) ==
  /\ raceStarted = TRUE
  /\ elapsed = 0 - lead
  /\ audio = TRUE
  /\ runners = [i \in Lanes |->
                  [z |-> startZ, speed |-> sp[i], finished |-> FALSE,
                   tFinish |-> Null, timeScale |-> RunScale]]
  /\ names = DefaultNames
  /\ pbs = [n \in AllNames |-> Null]
  /\ scores = updateScores(runners)
  /\ chains = <<>>
  /\ cdText = labels[Len(labels)]
  /\ cdVisible = FALSE
  /\ lookAtZ = fitCameraToTrack(runners)
  /\ cueLog = Append(labels, "start")
  /\ sinceReset = FALSE
  /\ owed = FALSE
  /\ nFinalize = 0
  /\ pbsBefore = pbs
  /\ nStarts = 1
  /\ nIgnored = 0
  /\ stored = NothingStored

InitScenario == \E lead \in ScenarioLeads : RaceStart(ScenarioSpeeds, lead)

TickScenario == \E gap \in ScenarioGaps : Frame(gap)

NextScenario == TickScenario

SpecScenario == InitScenario /\ [][NextScenario]_vars

\* The closing stretch of a race with the speeds of SpeedDraws: the first
\* RunFor ms of it were drawn in frames 40 ms apart, and from here on a frame
\* follows the one before after 40 ms or, the page having stalled, after
\* FrameGap ms.
RunFor == 11000
RaceGaps == {40, FrameGap}

\* The runner after t ms of frames that were not capped.
RunnerAfter(sp, t) ==
  [z |-> (sp * t) \div 1000, speed |-> sp, finished |-> FALSE,
   tFinish |-> Null, timeScale |-> RunScale]

InitRace ==
  /\ raceStarted = TRUE
  /\ elapsed = RunFor
  /\ audio = TRUE
  /\ \E sp \in SpeedDraws :
       /\ runners = [i \in Lanes |-> RunnerAfter(sp[i], RunFor)]
       /\ lookAtZ = fitCameraToTrack([i \in Lanes |-> RunnerAfter(sp[i], RunFor - 40)])
  /\ names = DefaultNames
  /\ pbs = [n \in AllNames |-> Null]
  /\ scores = updateScores(runners)
  /\ chains = <<>>
  /\ cdText = labels[Len(labels)]
  /\ cdVisible = FALSE
  /\ cueLog = Append(labels, "start")
  /\ sinceReset = FALSE
  /\ owed = FALSE
  /\ nFinalize = 0
  /\ pbsBefore = pbs
  /\ nStarts = 1
  /\ nIgnored = 0
  /\ stored = NothingStored

TickRace == \E gap \in RaceGaps : Frame(gap)

NextRace == TickRace

SpecRace == InitRace /\ [][NextRace]_vars

\* ------------------------------------------------- loading the module
\* Lines 47-58: names and pbs are read from localStorage, the runners are
\* loaded and the scoreboard is rendered for the first time.

NamesStored ==
  {Raw(k, <<>>, EmptyTable) : k \in {"missing", "empty", "garbage", "null", "number", "array"}}
    \cup {Raw("array", it, EmptyTable) :
            it \in {<<"Ana">>, <<"Ana", "", "Ana">>, <<"Ana", "", "Ana", "Ana">>,
                    <<"", "", "", "">>, <<"Ana", LaneLabel(1), "", "Ana", "Ana">>}}
    \cup {Raw("object", <<>>, [EmptyTable EXCEPT !["Ana"] = 12500])}

PBsStored ==
  {Raw(k, <<>>, EmptyTable) : k \in {"missing", "empty", "garbage", "null", "number", "string", "array"}}
    \cup {Raw("object", <<>>, [EmptyTable EXCEPT !["Ana"] = a, ![LaneLabel(1)] = b]) :
            a, b \in {Null, 12500, NotNumber}}

\* Before line 53 has run.
InitLoad ==
  /\ raceStarted = FALSE
  /\ elapsed = 0
  /\ audio = FALSE
  /\ runners = <<>>
  /\ names = <<>>
  /\ pbs = EmptyTable
  /\ scores = <<>>
  /\ chains = <<>>
  /\ cdText = ""
  /\ cdVisible = FALSE
  /\ lookAtZ = InitialLookAtZ
  /\ cueLog = <<>>
  /\ sinceReset = TRUE
  /\ owed = FALSE
  /\ nFinalize = 0
  /\ pbsBefore = pbs
  /\ nStarts = 0
  /\ nIgnored = 0
  /\ stored \in [names : NamesStored, pbs : PBsStored]

\* names = loadNames(); pbs = loadPBs(); await loadRunners(); updateScores().
LoadModule ==
  /\ names = <<>>
  /\ names' = loadNames(stored.names)
  /\ pbs' = loadPBs(stored.pbs)
  /\ pbsBefore' = pbs'
  /\ \E sp \in SpeedDraws :
       runners' = [i \in Lanes |->
                     [z |-> startZ, speed |-> sp[i], finished |-> FALSE,
                      tFinish |-> Null, timeScale |-> RunScale]]
  /\ scores' = RenderScores(runners', names', pbs')
  /\ UNCHANGED <<raceStarted, elapsed, audio, chains, cdText, cdVisible, lookAtZ,
                 cueLog, sinceReset, owed, nFinalize, nStarts, nIgnored, stored>>

NextLoad == LoadModule

SpecLoad == InitLoad /\ [][NextLoad]_vars

\* ------------------------------------------- the pure functions alone
\* updateScores and finalizePBs applied to enumerated inputs: any mix of
\* finished and unfinished runners, lanes that share a display name, and a
\* table with and without earlier records.

MaxMerges == 2        \* finalizePBs calls in a row

\* Finish times (ms) and stored bests the inputs are drawn from.
TimeChoices == {11900, 12500, 13000}
StoredChoices == {Null, 12500}

\* A runner as the frame callback leaves it: at the line with its time, or
\* still on the track.
RunnerWith(sp, t) ==
  IF t = Null
    THEN [z |-> startZ, speed |-> sp, finished |-> FALSE, tFinish |-> Null,
          timeScale |-> RunScale]
    ELSE [z |-> finishZ, speed |-> sp, finished |-> TRUE, tFinish |-> t,
          timeScale |-> FinishScale]

InitPure ==
  /\ raceStarted = FALSE
  /\ elapsed = 0
  /\ audio = FALSE
  /\ \E sp \in SpeedDraws, tf \in [Lanes -> TimeChoices \cup {Null}] :
       runners = [i \in Lanes |-> RunnerWith(sp[i], tf[i])]
  /\ names \in [Lanes -> NameChoices]
  /\ \E a, b \in StoredChoices :
       pbs = [n \in AllNames |-> IF n = "Ana" THEN a
                                 ELSE IF n = LaneLabel(1) THEN b ELSE Null]
  /\ scores = <<>>
  /\ chains = <<>>
  /\ cdText = ""
  /\ cdVisible = FALSE
  /\ lookAtZ = InitialLookAtZ
  /\ cueLog = <<>>
  /\ sinceReset = TRUE
  /\ owed = FALSE
  /\ nFinalize = 0
  /\ pbsBefore = pbs
  /\ nStarts = 0
  /\ nIgnored = 0
  /\ stored = NothingStored

\* updateScores() on its own (line 58, and the tail of every handler).
PureUpdateScores ==
  /\ scores = <<>>
  /\ UNCHANGED stored
  /\ scores' = updateScores(runners)
  /\ UNCHANGED <<raceStarted, elapsed, audio, runners, names, pbs, chains, cdText,
                 cdVisible, lookAtZ, cueLog, sinceReset, owed, nFinalize, pbsBefore,
                 nStarts, nIgnored>>

\* finalizePBs() on its own: the merge, then updateScores().
PureFinalize ==
  /\ nFinalize < MaxMerges
  /\ UNCHANGED stored
  /\ pbs' = finalizePBs(runners, names, pbs)
  /\ pbsBefore' = pbs
  /\ nFinalize' = nFinalize + 1
  /\ scores' = updateScores(runners)
  /\ UNCHANGED <<raceStarted, elapsed, audio, runners, names, chains, cdText,
                 cdVisible, lookAtZ, cueLog, sinceReset, owed, nStarts, nIgnored>>

NextPure ==
  \/ PureUpdateScores
  \/ PureFinalize

SpecPure == InitPure /\ [][NextPure]_vars

TypeOK ==
  /\ raceStarted \in BOOLEAN
  /\ elapsed \in Nat
  /\ audio \in BOOLEAN
  /\ \A i \in Lanes : runners[i].z \in startZ..finishZ
  /\ Len(chains) <= MaxStarts
  /\ Len(scores) = NumRunners


\* ------------------------------------------------------------- phases

AllFinished == \A i \in Lanes : runners[i].finished

\* The phase of the race session, read off the program state.
Phase ==
  IF raceStarted THEN "Running"
  ELSE IF chains # <<>> THEN "Countdown"
  ELSE IF AllFinished THEN "Finished"
  ELSE "Idle"

Count(s, x) == Cardinality({k \in DOMAIN s : s[k] = x})

\* ------------------------------------------------------------- claims

\* C1: a reset issued while a countdown is in flight cancels it: in every step
\* taken after the reset and before the next start request no cue fires, the
\* race does not start, and every runner stays at the start line.
C1_ResetCancelsCountdown ==
  [][(sinceReset /\ sinceReset') =>
       /\ cueLog' = cueLog
       /\ ~raceStarted'
       /\ \A i \in Lanes : runners'[i].z = startZ]_vars

\* C2: a start request during a countdown is a no-op: at most one countdown
\* sequence is in flight at any time, and one countdown generation fires the
\* start cue at most once.
C2_SingleCountdownInFlight ==
  /\ Len(chains) <= 1
  /\ Count(cueLog, "start") <= 1

\* C3: for every runner, finished, finishTime /= null and
\* position.z >= finishDistance hold together or not at all.
C3_FinishedEquivalence ==
  \A i \in Lanes :
    /\ runners[i].finished <=> (runners[i].tFinish # Null)
    /\ runners[i].finished <=> (runners[i].z >= finishZ)

\* C3 witness: the race is under way, one runner has finished and another has
\* not.
C3_Witness ==
  /\ raceStarted
  /\ \E i, j \in Lanes : runners[i].finished /\ ~runners[j].finished /\ runners[j].z > startZ

\* C4: once a runner is finished, only an explicit reset changes its position,
\* finished flag or finishTime: every other step leaves them as they are.
C4_FinishedRunnerFrozen ==
  [][\A i \in Lanes :
       runners[i].finished =>
         \/ /\ runners'[i].z = runners[i].z
            /\ runners'[i].finished
            /\ runners'[i].tFinish = runners[i].tFinish
         \/ ResetRace]_vars

\* C4 witness: a race restarted without a reset has run a frame over runners
\* that finished in the race before, and they still hold their times.
C4_Witness ==
  /\ nFinalize >= 2
  /\ \A i \in Lanes : runners[i].finished /\ runners[i].tFinish # Null

\* C5: a start request while the race is running begins no countdown and
\* changes nothing of the program state.
C5_StartWhileRunningNoOp ==
  [][(raceStarted /\ nStarts' = nStarts + 1) =>
       UNCHANGED <<progVars, cueLog>>]_vars

\* C5 witness: a start request was ignored and the race it met is still on.
C5_Witness ==
  /\ nIgnored >= 1
  /\ raceStarted
  /\ chains = <<>>
  /\ \E i \in Lanes : runners[i].z > startZ

\* C6: between two resets (or from load) finalizePBs runs at most once.
C6_FinalizeOncePerRace == nFinalize <= 1

\* C7: a stored personal best only ever decreases, it is replaced only by a
\* strictly smaller time (or set when there is none), and the table is written
\* only by a finalization.
C7_PBMonotone ==
  [][/\ \A n \in AllNames :
          pbs'[n] # pbs[n] =>
            /\ pbs'[n] # Null
            /\ pbs[n] = Null \/ pbs'[n] < pbs[n]
     /\ pbs' # pbs => nFinalize' = nFinalize + 1]_vars

\* C7 witness: a finalization found a stored best and left it alone, although
\* a runner of that name finished with a slower time.
C7_Witness ==
  /\ Phase = "Finished"
  /\ \E i \in Lanes :
       /\ pbsBefore[DisplayName(names, i)] # Null
       /\ runners[i].tFinish > pbsBefore[DisplayName(names, i)]
       /\ pbs[DisplayName(names, i)] = pbsBefore[DisplayName(names, i)]

\* C10: a failing cue-service call never aborts the race: a start request that
\* passed the guard, with no reset since, has a countdown in flight until the
\* race is running.
C10_CueFailureNeverAborts == owed => chains # <<>>


\* C8: finalizePBs applied a second time to the same finish times and names
\* leaves the table as the first application made it.
C8_FinalizeIdempotent == nFinalize >= 2 => pbs = pbsBefore

\* C8 witness: lanes 1 and 2 share the name Ana, the later lane is the faster
\* one, and the merge has run twice.
C8_Witness ==
  /\ nFinalize = 2
  /\ names[1] = "Ana" /\ names[2] = "Ana"
  /\ runners[1].tFinish = 13000 /\ runners[2].tFinish = 11900
  /\ pbs["Ana"] = 11900

\* The order s lists every lane once, finished runners by ascending time and
\* every unfinished runner after every finished one.
IsRanked(s, rs) ==
  /\ Len(s) = NumRunners
  /\ {s[k] : k \in DOMAIN s} = Lanes
  /\ \A a, b \in DOMAIN s :
       a < b =>
         /\ rs[s[a]].tFinish = Null => rs[s[b]].tFinish = Null
         /\ (rs[s[a]].tFinish # Null /\ rs[s[b]].tFinish # Null)
              => rs[s[a]].tFinish <= rs[s[b]].tFinish

\* C9: the scoreboard order is ascending by finishTime among the finished
\* runners, with every unfinished runner after every finished one.
C9_ScoreboardRanked == scores # <<>> => IsRanked(scores, runners)

\* C9 witness: lane 1 has not finished, lane 4 has the best time and leads the
\* board, and two finished runners are out of lane order.
C9_Witness ==
  /\ scores # <<>>
  /\ runners[1].tFinish = Null
  /\ scores[1] = 4
  /\ scores[NumRunners] = 1
  /\ runners[2].tFinish = 13000 /\ runners[3].tFinish = 12500

\* ---------------------------------------------- claims on the lifecycle

\* C12: playback speed follows the race lifecycle: every runner has playback
\* speed 2.2 at the step in which the race starts running, a runner gets 0.6
\* in the tick in which it finishes, and a reset restores 2.2 for all.
C12_PlaybackSpeedLifecycle ==
  [][/\ (~raceStarted /\ raceStarted') =>
          \A i \in Lanes : runners'[i].timeScale = RunScale
     /\ \A i \in Lanes :
          (~runners[i].finished /\ runners'[i].finished) =>
            runners'[i].timeScale = FinishScale
     /\ ResetRace => \A i \in Lanes : runners'[i].timeScale = RunScale]_vars

\* C14: a reset from Idle, Running or Finished leaves the phase Idle, with
\* every runner at z = 0, not finished and without finish time, and with the
\* speeds and the personal-best table as they were.
C14_ResetToIdle ==
  [][(ResetRace /\ Phase \in {"Idle", "Running", "Finished"}) =>
       /\ Phase' = "Idle"
       /\ \A i \in Lanes :
            /\ runners'[i].z = startZ
            /\ ~runners'[i].finished
            /\ runners'[i].tFinish = Null
            /\ runners'[i].speed = runners[i].speed
       /\ pbs' = pbs]_vars

\* The cues of one countdown, in order.
CueOrder == Append(labels, "start")

IsPrefix(s, t) == Len(s) <= Len(t) /\ \A k \in DOMAIN s : s[k] = t[k]

\* C16: after a single start request, with no reset since, the cues fired so
\* far are a prefix of "3", "2", "1", "GO!", start; while ticks are still due
\* the countdown is in flight at the label last cued; the race runs only once
\* all five have fired, and no runner has left the start line before that.
C16_SingleStartCueOrder ==
  (nStarts = 1 /\ ~sinceReset) =>
    /\ IsPrefix(cueLog, CueOrder)
    /\ raceStarted => cueLog = CueOrder
    /\ cueLog # CueOrder => \A i \in Lanes : runners[i].z = startZ
    /\ (cueLog # <<>> /\ cueLog # CueOrder) =>
         /\ Len(chains) = 1
         /\ chains[1].i = Len(cueLog)

\* C16 witness: one start request, all five cues fired in order, the race is
\* running and a runner has moved.
C16_Witness ==
  /\ nStarts = 1
  /\ ~sinceReset
  /\ cueLog = CueOrder
  /\ raceStarted
  /\ \E i \in Lanes : runners[i].z > startZ

\* C18: in every frame the camera looks two metres ahead of the rearmost
\* runner as the frame found the runners, so the point it looks at is never
\* more than two metres ahead of any runner in the rendered frame, and the
\* camera is eased towards a z between 0.8 * 16 and 0.8 * 7 metres behind it.
C18_CameraFollowsRearmost ==
  [][Tick =>
       /\ \A i \in Lanes : lookAtZ' <= runners[i].z + LookAhead
       /\ \E i \in Lanes : lookAtZ' = runners[i].z + LookAhead
       /\ \A i \in Lanes : lookAtZ' <= runners'[i].z + LookAhead
       /\ \A d \in DistChoices :
            /\ cameraTargetZ(runners, d) >= lookAtZ' - (MaxDist * 8) \div 10
            /\ cameraTargetZ(runners, d) <= lookAtZ' - (MinDist * 8) \div 10]_vars

\* C18 witness: the race is running, the pack has spread, one runner is home,
\* and the camera looks at the point two metres ahead of where the rearmost
\* runner was when the frame began.
C18_Witness ==
  /\ raceStarted
  /\ \E i, j \in Lanes : runners[i].finished /\ ~runners[j].finished
  /\ lookAtZ > InitialLookAtZ
  /\ lookAtZ < MinZ(runners, NumRunners) + LookAhead

\* C19: while the race is running the start timestamp is not rewritten (the
\* elapsed time never goes back), and a runner that finishes in a later tick
\* than another has a finish time at least as large.
C19_StartTimestampStable ==
  [][/\ (raceStarted /\ raceStarted') => elapsed' >= elapsed
     /\ \A a, b \in Lanes :
          (/\ runners[a].finished /\ runners'[a].finished
           /\ ~runners[b].finished /\ runners'[b].finished)
            => runners[a].tFinish <= runners'[b].tFinish]_vars

\* C20: every race begins from the start line: at the step in which the race
\* starts running every runner is at z = 0, not finished and without finish
\* time, and a finalization happens only in a tick in which a runner finishes.
C20_RaceBeginsAtStartLine ==
  [][/\ (~raceStarted /\ raceStarted') =>
          \A i \in Lanes :
            /\ runners'[i].z = startZ
            /\ ~runners'[i].finished
            /\ runners'[i].tFinish = Null
     /\ nFinalize' = nFinalize + 1 =>
          \E i \in Lanes : ~runners[i].finished /\ runners'[i].finished]_vars

\* ------------------------------------------------ claims on one race

\* The finish time of lane i is within one frame interval (50 ms) of
\* distance / speed.
NearIdealTime(i) ==
  LET d == runners[i].tFinish * runners[i].speed - finishZ * 1000
  IN /\ d < MaxDt * runners[i].speed
     /\ 0 - d < MaxDt * runners[i].speed

\* C11: with speeds 7.0, 7.5, 8.0, 6.8 m/s and frames at most 50 ms apart,
\* lane 3 finishes first, about 12.5 s after the start, lane 4 finishes last,
\* about 14.7 s after it, each within one frame interval of distance / speed,
\* and once all have finished the scoreboard order is 3, 2, 1, 4.
C11_ScenarioOrder ==
  /\ \A i \in Lanes :
       runners[i].finished =>
         /\ NearIdealTime(i)
         /\ runners[3].finished /\ runners[3].tFinish <= runners[i].tFinish
         /\ runners[4].finished => runners[i].tFinish <= runners[4].tFinish
  /\ runners[3].finished =>
       runners[3].tFinish > 12500 - MaxDt /\ runners[3].tFinish < 12500 + MaxDt
  /\ runners[4].finished =>
       /\ AllFinished
       /\ runners[4].tFinish > 14706 - MaxDt /\ runners[4].tFinish < 14706 + MaxDt
  /\ AllFinished => scores = <<3, 2, 1, 4>>

\* C11 witness: the race is over, the board reads 3, 2, 1, 4, lane 3 crossed
\* the line before 12.5 s were on the clock and lane 4 after 14.72 s.
C11_Witness ==
  /\ ~raceStarted
  /\ nFinalize = 1
  /\ scores = <<3, 2, 1, 4>>
  /\ runners[3].tFinish < 12500
  /\ runners[4].tFinish > 14720

\* C15: in a running tick an unfinished runner advances by speed * delta with
\* delta the frame time capped at 0.05 s; when that takes it to the finish
\* distance or beyond, its position is exactly the finish distance and its
\* finish time is the elapsed time of that tick; positions stay within
\* 0 .. finishDistance.
C15_AdvanceAndClamp ==
  [][/\ \A gap \in RaceGaps :
          (Frame(gap) /\ raceStarted) =>
            \A i \in Lanes :
              ~runners[i].finished =>
                LET delta == IF gap <= MaxDt THEN gap ELSE MaxDt
                    z1 == runners[i].z + (runners[i].speed * delta) \div 1000
                IN IF z1 >= finishZ
                     THEN /\ runners'[i].z = finishZ
                          /\ runners'[i].finished
                          /\ runners'[i].tFinish = elapsed + gap
                     ELSE /\ runners'[i].z = z1
                          /\ ~runners'[i].finished
                          /\ runners'[i].tFinish = Null
     /\ \A i \in Lanes : runners'[i].z \in startZ..finishZ]_vars

\* C15 witness: a runner stands exactly on the finish line with a finish time
\* that is more than a frame interval away from distance / speed, another is
\* still running, and frames of both lengths have been drawn.
C15_Witness ==
  /\ raceStarted
  /\ \E i, j \in Lanes :
       /\ runners[i].finished /\ runners[i].z = finishZ
       /\ ~NearIdealTime(i)
       /\ (runners[i].tFinish - RunFor) % FrameGap # 0
       /\ (runners[i].tFinish - RunFor) % 40 # 0
       /\ ~runners[j].finished /\ runners[j].z > startZ

\* C17: once the race is running, unless a reset intervenes, every runner
\* eventually finishes and the race is eventually over; and the tick in which
\* the last runner finishes is the one that ends the race, stops the clock and
\* has every finish time merged into the personal-best table.
C17_RaceTerminates ==
  /\ raceStarted ~> ((AllFinished /\ ~raceStarted) \/ sinceReset)
  /\ [][(raceStarted /\ ~AllFinished /\ AllFinished') =>
          /\ ~raceStarted'
          /\ nFinalize' = nFinalize + 1
          /\ \A i \in Lanes :
               /\ pbs'[DisplayName(names, i)] # Null
               /\ pbs'[DisplayName(names, i)] <= runners'[i].tFinish]_vars

\* C17 witness: a race ran from the start line to the end with no reset, it is
\* over, and the table holds the times of the four runners.
C17_Witness ==
  /\ ~sinceReset
  /\ ~raceStarted
  /\ AllFinished
  /\ nFinalize = 1
  /\ \A i \in Lanes : pbs[DisplayName(names, i)] # Null

\* ---------------------------------------------- claims on loading

\* Stored names that are missing, unparseable, not an array or an array of
\* fewer than 4 entries.
BadNames(raw) == ~(raw.kind = "array" /\ Len(raw.items) >= NumRunners)

\* A stored PB record that is missing, unparseable or not a mapping from
\* names to numbers.
BadPBs(raw) ==
  ~(raw.kind = "object" /\ \A n \in AllNames : raw.table[n] # NotNumber)

\* C13: once the module is loaded, bad stored names have given the four
\* default names, a bad stored PB record has given the empty table, and with
\* either the first scoreboard was rendered completely.
C13_LoadFallsBack ==
  names # <<>> =>
    /\ BadNames(stored.names) => names = DefaultNames
    /\ BadPBs(stored.pbs) => pbs = EmptyTable
    /\ (BadNames(stored.names) \/ BadPBs(stored.pbs)) => Len(scores) = NumRunners

====
